---- MODULE Spec2Model ----
(***************************************************************************)
(* The 3CX session client (class cxgui) of src/cxgui/cxgui.py and its      *)
(* older variant src/3cxgui/3cxgui.py, as a state machine.                 *)
(*                                                                         *)
(* A Python str that takes part in URL building is a sequence of pieces;   *)
(* a slash or a blank at either end of a string is a piece of its own, so  *)
(* that s[0] and s[-1] are the first and the last piece.  Python None is   *)
(* the value None below.  One step of the model is one call of a method    *)
(* of the client, with the server's responses to the requests it issues    *)
(* drawn from bounded sets.  The variable call records the last call: the  *)
(* requests it sent, the responses it got, the exception it raised (if     *)
(* any) and the value it returned.  The __main__ block of either file, the *)
(* driver, is the sequence of calls at the end of the module; pc is its    *)
(* position.                                                               *)
(***************************************************************************)
EXTENDS Integers, Sequences, FiniteSets, TLC

VARIABLES
    variant,        \* which of the two source files is running
    domain,         \* self._domain
    ssl,            \* self._ssl
    user_agent,     \* self._user_agent
    username,       \* self._username
    password,       \* self._password
    access_token,   \* self._access_token
    refresh_token,  \* self._refresh_token
    auth_token,     \* self._auth_token
    disk,           \* the local files backup_download writes
    call,           \* the last method call: requests, responses, outcome
    exchanged,      \* history: some login had its primary call succeed and
                    \* its /connect/token call answered with HTTP 200
    pc,             \* the statement of the __main__ block that runs next
    output_fname,   \* __main__: the name backup_start returned
    backup_obj,     \* __main__: the last result of backup_fetch_list
    ready           \* the server: the backup the driver waits for is listed

\* the variables of the __main__ block and of the server it talks to
driver_vars == <<pc, output_fname, backup_obj, ready>>

vars == <<variant, domain, ssl, user_agent, username, password,
          access_token, refresh_token, auth_token, disk, call, exchanged,
          pc, output_fname, backup_obj, ready>>

-----------------------------------------------------------------------------
(* Bounds of the model *)

\* most records the server puts in one list response
MaxRecs == 2
\* most chunks one download response delivers
MaxChunks == 2

-----------------------------------------------------------------------------
(* Values *)

None == "<None>"

\* str(x) as an f-string renders it
PyStr(x) == IF x = None THEN "None" ELSE x

Variants == {"cxgui", "3cxgui"}

\* constructor arguments
DomainInputs == {<<"example.com">>, <<"example.com", "/">>}
SslInputs == {TRUE}

\* what the login caller passes
Usernames == {"admin"}
Passwords == {"secret"}

\* tokens the server hands out
PrimaryTokens == {"tA", "tB"}
RefreshTokens == {"rA"}
ExchangeTokens == {"", "tA", "tC"}

\* file names a caller passes, and the days the clock can show
Names == {"a.zip", "b.zip"}
Dates == {"2026-01-19", "2026-01-20"}

\* download links the server reports, and local output paths
Links == {<<"/", "backups/1">>, <<"backups/2">>}
OutPaths == {"out.zip"}

\* bytes of a download body
Chunks == {<<>>, <<1>>, <<2>>}

-----------------------------------------------------------------------------
(* Exceptions *)

NoExc == [type |-> "None"]

\* cxgui.py raises its own HttpError / GUIError; 3cxgui.py raises RuntimeError
Exc(v, type, msg) ==
    [type |-> IF v = "cxgui" THEN type ELSE "RuntimeError", msg |-> msg]

\* a dict or list lookup that fails
LookupError(type, key) == [type |-> type, msg |-> <<key>>]

Raised(c) == c.raised.type # "None"

-----------------------------------------------------------------------------
(* Values a method returns, with their Python type *)

PyNone == [type |-> "NoneType", value |-> None]
PyBool(b) == [type |-> "bool", value |-> b]
PyString(s) == [type |-> "str", value |-> s]
PyList(s) == [type |-> "list", value |-> s]

\* the call raised: it returned nothing
NoReturn == [type |-> "<no return>", value |-> None]

-----------------------------------------------------------------------------
(* Construction *)

RECURSIVE LStrip(_)
LStrip(s) == IF s # <<>> /\ Head(s) = " " THEN LStrip(Tail(s)) ELSE s

RECURSIVE RStrip(_)
RStrip(s) ==
    IF s # <<>> /\ s[Len(s)] = " " THEN RStrip(SubSeq(s, 1, Len(s) - 1)) ELSE s

\* str.strip()
Strip(s) == RStrip(LStrip(s))

\* __init__: the domain it stores
NormalizeDomain(v, d) ==
    LET d1 == IF v = "cxgui" THEN Strip(d) ELSE d
    IN  IF d1[Len(d1)] = "/" THEN SubSeq(d1, 1, Len(d1) - 1) ELSE d1

\* the files of the working directory: the download targets, the backup
\* under the name backup_start gives it by default, and the two tables the
\* __main__ block of cxgui.py extracts
CsvPaths == {"cdrbilling.csv", "cdroutput.csv"}

LocalPaths ==
    OutPaths \cup {"CDRDump-" \o today \o ".zip" : today \in Dates}
        \cup CsvPaths

NoFile == [exists |-> FALSE, data |-> <<>>]

NoCall == [op |-> "init", args |-> <<>>, reqs |-> <<>>, resps |-> <<>>,
           raised |-> NoExc, ret |-> PyNone]

Init ==
    /\ variant \in Variants
    /\ \E d \in DomainInputs : domain = NormalizeDomain(variant, d)
    /\ ssl \in SslInputs
    /\ user_agent = "Mozilla/5.0 Firefox"
    /\ username = None
    /\ password = None
    /\ access_token = None
    /\ refresh_token = None
    /\ auth_token = None
    /\ disk = [p \in LocalPaths |-> NoFile]
    /\ call = NoCall
    /\ exchanged = FALSE
    /\ pc = "login"
    /\ output_fname = None
    /\ backup_obj = PyNone
    /\ ready = FALSE

-----------------------------------------------------------------------------
(* Request construction *)

\* a mutation of build_url: the slash is added whatever the path starts with
build_url_always_slash(relative_url) ==
    <<IF ssl THEN "https" ELSE "http", "://">> \o domain
        \o <<"/">> \o relative_url

build_url(relative_url) ==
    <<IF ssl THEN "https" ELSE "http", "://">> \o domain
        \o (IF relative_url[1] = "/" THEN <<>> ELSE <<"/">>) \o relative_url

build_headers(include_auth) ==
    LET temp == ("Accept" :> "application/json") @@ ("User-Agent" :> user_agent)
    IN  IF include_auth
        THEN temp @@ ("Authorization" :> ("Bearer " \o PyStr(auth_token)))
        ELSE temp

\* the headers of a request made with requests.get outside the session, with
\* no headers argument
default_headers ==
    ("Accept" :> "*/*") @@ ("User-Agent" :> "python-requests")

\* a request as the transport sends it
Request(method, url, headers, body) ==
    [method |-> method, url |-> url, headers |-> headers, body |-> body]

NoBody == [none |-> TRUE]

Call(op, args, reqs, resps, raised, ret) ==
    [op |-> op, args |-> args, reqs |-> reqs, resps |-> resps,
     raised |-> raised, ret |-> ret]

-----------------------------------------------------------------------------
(* login *)

LOGIN_PATH == <<"/", "webclient/api/Login/GetAccessToken">>
TOKEN_PATH == <<"/", "connect/token">>

\* a JSON body that holds none of the keys the client reads
ErrorBody == [Message |-> "error"]

LoginBodies ==
    {[Status |-> s,
      Token |-> [token_type |-> t, access_token |-> a, refresh_token |-> r]] :
        s \in {"AuthSuccess", "AuthFailed"}, t \in {"Bearer", "MAC"},
        a \in PrimaryTokens, r \in RefreshTokens}

\* answers of POST /webclient/api/Login/GetAccessToken
LoginResponses == [status_code : {200, 401}, json : LoginBodies \cup {ErrorBody}]

\* answers of POST /connect/token
TokenResponses ==
    [status_code : {200, 400},
     json : {[access_token |-> a] : a \in ExchangeTokens} \cup {ErrorBody}]

\* a mutation of PrimaryCheck: the HTTP status alone decides
PrimaryCheckStatusOnly(v, result) ==
    IF result.status_code \notin {200}
    THEN Exc(v, "HttpError",
             <<"Invalid HTTP status when logging in: ", result.status_code>>)
    ELSE IF "Status" \notin DOMAIN result.json
    THEN LookupError("KeyError", "Status")
    ELSE NoExc

\* a mutation of PrimaryCheck: the body alone decides
PrimaryCheckBodyOnly(v, result) ==
    IF "Status" \notin DOMAIN result.json
    THEN LookupError("KeyError", "Status")
    ELSE IF result.json.Status \notin {"AuthSuccess"}
    THEN Exc(v, "GUIError",
             <<"Unknown 3CX status when logging in: ", result.json.Status>>)
    ELSE IF result.json.Token.token_type \notin {"Bearer"}
    THEN Exc(v, "GUIError",
             <<"Unknown token type: ", result.json.Token.token_type>>)
    ELSE NoExc

\* the checks of the primary response: the exception login raises, or NoExc
PrimaryCheck(v, result) ==
    IF result.status_code \notin {200}
    THEN Exc(v, "HttpError",
             <<"Invalid HTTP status when logging in: ", result.status_code>>)
    ELSE IF "Status" \notin DOMAIN result.json
    THEN LookupError("KeyError", "Status")
    ELSE IF result.json.Status \notin {"AuthSuccess"}
    THEN Exc(v, "GUIError",
             <<"Unknown 3CX status when logging in: ", result.json.Status>>)
    ELSE IF result.json.Token.token_type \notin {"Bearer"}
    THEN Exc(v, "GUIError",
             <<"Unknown token type: ", result.json.Token.token_type>>)
    ELSE NoExc

\* a mutation of ExchangedToken: the primary response's access token is used
ExchangedTokenFromPrimary(result, token_result) ==
    result.json.Token.access_token

\* the token login stores in _auth_token
ExchangedToken(result, token_result) == token_result.json.access_token

\* a mutation of LoginOutcome: a login rejected at its primary call resets the
\* token fields
LoginOutcomeResetsTokens(u, p, result, token_result) ==
    LET req1 == Request("POST", build_url(LOGIN_PATH), build_headers(FALSE),
                        [ReCaptchaResponse |-> None, SecurityCode |-> "",
                         Password |-> p, Username |-> u])
        req2 == Request("POST", build_url(TOKEN_PATH), build_headers(FALSE),
                        [client_id |-> "Webclient",
                         grant_type |-> "refresh_token"])
        e1 == PrimaryCheck(variant, result)
    IN  IF e1 # NoExc
        THEN [access |-> None, refresh |-> None,
              auth |-> None, both |-> FALSE,
              call |-> Call("login", <<u, p>>, <<req1>>, <<result>>, e1,
                            NoReturn)]
        ELSE IF "access_token" \notin DOMAIN token_result.json
        THEN [access |-> result.json.Token.access_token,
              refresh |-> result.json.Token.refresh_token,
              auth |-> auth_token, both |-> token_result.status_code = 200,
              call |-> Call("login", <<u, p>>, <<req1, req2>>,
                            <<result, token_result>>,
                            LookupError("KeyError", "access_token"),
                            NoReturn)]
        ELSE [access |-> result.json.Token.access_token,
              refresh |-> result.json.Token.refresh_token,
              auth |-> ExchangedToken(result, token_result),
              both |-> token_result.status_code = 200,
              call |-> Call("login", <<u, p>>, <<req1, req2>>,
                            <<result, token_result>>, NoExc,
                            PyBool(TRUE))]

\* login(u, p) with the server answering result, then token_result: the new
\* token fields and the record of the call
LoginOutcome(u, p, result, token_result) ==
    LET req1 == Request("POST", build_url(LOGIN_PATH), build_headers(FALSE),
                        [ReCaptchaResponse |-> None, SecurityCode |-> "",
                         Password |-> p, Username |-> u])
        req2 == Request("POST", build_url(TOKEN_PATH), build_headers(FALSE),
                        [client_id |-> "Webclient",
                         grant_type |-> "refresh_token"])
        e1 == PrimaryCheck(variant, result)
    IN  IF e1 # NoExc
        THEN [access |-> access_token, refresh |-> refresh_token,
              auth |-> auth_token, both |-> FALSE,
              call |-> Call("login", <<u, p>>, <<req1>>, <<result>>, e1,
                            NoReturn)]
        ELSE IF "access_token" \notin DOMAIN token_result.json
        THEN [access |-> result.json.Token.access_token,
              refresh |-> result.json.Token.refresh_token,
              auth |-> auth_token, both |-> token_result.status_code = 200,
              call |-> Call("login", <<u, p>>, <<req1, req2>>,
                            <<result, token_result>>,
                            LookupError("KeyError", "access_token"),
                            NoReturn)]
        ELSE [access |-> result.json.Token.access_token,
              refresh |-> result.json.Token.refresh_token,
              auth |-> ExchangedToken(result, token_result),
              both |-> token_result.status_code = 200,
              call |-> Call("login", <<u, p>>, <<req1, req2>>,
                            <<result, token_result>>, NoExc,
                            PyBool(TRUE))]

\* the answers /connect/token can give to this call: none when the primary
\* response is rejected, because the request is not sent
TokenAnswers(result) ==
    IF PrimaryCheck(variant, result) = NoExc
    THEN TokenResponses
    ELSE {[status_code |-> 0, json |-> ErrorBody]}

login ==
    \E u \in Usernames, p \in Passwords, result \in LoginResponses :
      \E token_result \in TokenAnswers(result) :
        LET o == LoginOutcome(u, p, result, token_result)
        IN  /\ username' = u
            /\ password' = p
            /\ access_token' = o.access
            /\ refresh_token' = o.refresh
            /\ auth_token' = o.auth
            /\ call' = o.call
            /\ exchanged' = (exchanged \/ o.both)
            /\ UNCHANGED driver_vars
            /\ UNCHANGED <<variant, domain, ssl, user_agent, disk>>

-----------------------------------------------------------------------------
(* backup_fetch_list *)

BACKUPS_PATH == <<"/", "xapi/v1/Backups">>

LIST_PARAMS ==
    [top |-> 50, skip |-> 0,
     select |-> "CreationTime,Size,FileName,DownloadLink"]

\* the backup records a server can report
Records ==
    {[FileName |-> n, DownloadLink |-> l,
      CreationTime |-> "2026-01-19T03:00:00Z", Size |-> 1024] :
        n \in Names, l \in Links}

RawLists == UNION {[1..n -> Records] : n \in 0..MaxRecs}

\* answers of GET /xapi/v1/Backups
ListResponses ==
    {[status_code |-> 200, json |-> [value |-> raw]] : raw \in RawLists}
        \cup [status_code : {200, 401}, json : {ErrorBody}]
        \cup {[status_code |-> 401, json |-> [value |-> <<>>]]}

\* a mutation of FilterByName: the first match only
FilterFirstMatch(raw_json, fname_filter) ==
    LET hits == SelectSeq(raw_json, LAMBDA x : x.FileName = fname_filter)
    IN  PyList(IF hits = <<>> THEN <<>> ELSE <<hits[1]>>)

\* a mutation of FilterByName: nothing found is reported as None
FilterOrNone(raw_json, fname_filter) ==
    LET hits == SelectSeq(raw_json, LAMBDA x : x.FileName = fname_filter)
    IN  IF hits = <<>> THEN PyNone ELSE PyList(hits)

\* list(filter(lambda x: x['FileName'] == fname_filter, raw_json))
FilterByName(raw_json, fname_filter) ==
    PyList(SelectSeq(raw_json, LAMBDA x : x.FileName = fname_filter))

\* backup_fetch_list(fname_filter) with the server answering result
\* (3cxgui.py also pretty-prints raw_json, with the pprint module its
\* __main__ block imports)
ListOutcome(fname_filter, result) ==
    LET req == Request("GET", build_url(BACKUPS_PATH), build_headers(TRUE),
                       LIST_PARAMS)
    IN  IF result.status_code \notin {200}
        THEN Call("backup_fetch_list", <<fname_filter>>, <<req>>, <<result>>,
                  Exc(variant, "HttpError",
                      <<"Invalid HTTP status when pulling backup list in: ",
                        result.status_code>>), NoReturn)
        ELSE IF "value" \notin DOMAIN result.json
        THEN Call("backup_fetch_list", <<fname_filter>>, <<req>>, <<result>>,
                  LookupError("KeyError", "value"), NoReturn)
        ELSE Call("backup_fetch_list", <<fname_filter>>, <<req>>, <<result>>,
                  NoExc,
                  IF fname_filter # None
                  THEN FilterByName(result.json.value, fname_filter)
                  ELSE PyList(result.json.value))

backup_fetch_list ==
    \E fname_filter \in Names \cup {None}, result \in ListResponses :
        /\ call' = ListOutcome(fname_filter, result)
        /\ UNCHANGED driver_vars
        /\ UNCHANGED <<variant, domain, ssl, user_agent, username, password,
                       access_token, refresh_token, auth_token, disk,
                       exchanged>>

-----------------------------------------------------------------------------
(* backup_start *)

BACKUP_PATH == <<"/", "xapi/v1/Backups/Pbx.Backup">>

DUPLICATE == "WARNINGS.XAPI.DUPLICATE"

BACKUP_CONTENTS ==
    [Recordings |-> FALSE, EncryptBackup |-> FALSE, FQDN |-> TRUE,
     CallHistory |-> TRUE, License |-> TRUE, PhoneProvisioning |-> TRUE,
     Prompts |-> TRUE, VoiceMails |-> TRUE,
     DisableBackupCompression |-> FALSE]

\* an OData error body with the given details
ODataError(details) ==
    [error |-> [code |-> "", message |-> "Bad request", details |-> details]]

TriggerBodies ==
    {ODataError(<<[message |-> DUPLICATE]>>),
     ODataError(<<[message |-> "WARNINGS.XAPI.INVALID"]>>),
     ODataError(<<>>),
     ErrorBody}

\* answers of POST /xapi/v1/Backups/Pbx.Backup
TriggerResponses ==
    [status_code : {200, 204}, json : {ErrorBody}]
        \cup [status_code : {400, 500}, json : TriggerBodies]

\* the file name backup_start asks for
BackupName(out_filename, today) ==
    IF out_filename = None
    THEN "CDRDump-" \o today \o ".zip"
    ELSE out_filename

\* a mutation of DuplicateCheck: the duplicate case is not recognised
DuplicateCheckNever(result) == "other"

\* what the body of a non-200/204 answer tells backup_start: "duplicate",
\* "other", or the lookup that fails while reading it
DuplicateCheck(result) ==
    IF result.status_code \in {400}
    THEN IF "error" \notin DOMAIN result.json THEN "KeyError"
         ELSE IF result.json.error.details = <<>> THEN "IndexError"
         ELSE IF result.json.error.details[1].message = DUPLICATE
              THEN "duplicate"
              ELSE "other"
    ELSE "other"

\* backup_start(out_filename) on day today with the server answering result
StartOutcome(out_filename, today, result) ==
    LET filename == BackupName(out_filename, today)
        req == Request("POST", build_url(BACKUP_PATH), build_headers(TRUE),
                       [description |->
                           [Name |-> filename, Contents |-> BACKUP_CONTENTS]])
        dup == DuplicateCheck(result)
    IN  IF result.status_code \notin {200, 204}
        THEN IF dup = "duplicate"
             THEN Call("backup_start", <<out_filename>>, <<req>>, <<result>>,
                       NoExc, PyString(filename))
             ELSE IF dup \in {"KeyError", "IndexError"}
             THEN Call("backup_start", <<out_filename>>, <<req>>, <<result>>,
                       LookupError(dup, IF dup = "KeyError" THEN "error"
                                        ELSE "details[0]"),
                       NoReturn)
             ELSE Call("backup_start", <<out_filename>>, <<req>>, <<result>>,
                       Exc(variant, "HttpError",
                           <<"Invalid HTTP status when creating backup: ",
                             result.status_code, " -> ", result.json>>),
                       NoReturn)
        ELSE Call("backup_start", <<out_filename>>, <<req>>, <<result>>,
                  NoExc, PyString(filename))

backup_start ==
    \E out_filename \in Names \cup {None}, today \in Dates,
       result \in TriggerResponses :
        /\ call' = StartOutcome(out_filename, today, result)
        /\ UNCHANGED driver_vars
        /\ UNCHANGED <<variant, domain, ssl, user_agent, username, password,
                       access_token, refresh_token, auth_token, disk,
                       exchanged>>

-----------------------------------------------------------------------------
(* backup_delete *)

\* answers of DELETE /xapi/v1/Backups('<filename>')
DeleteResponses == [status_code : {204, 200, 404}, json : {ErrorBody}]

\* the check of the answer: the exception backup_delete raises, or NoExc
DeleteCheck(v, result) ==
    IF result.status_code \notin {204}
    THEN Exc(v, "HttpError",
             <<"Invalid HTTP code '", result.status_code,
               "' deleting backup">>)
    ELSE NoExc

\* backup_delete(filename) with the server answering result; in 3cxgui.py
\* the method has a docstring and no body
DeleteOutcome(filename, result) ==
    IF variant = "3cxgui"
    THEN Call("backup_delete", <<filename>>, <<>>, <<>>, NoExc, PyNone)
    ELSE Call("backup_delete", <<filename>>,
              <<Request("DELETE",
                        build_url(<<"/", "xapi/v1/Backups('", filename, "')">>),
                        build_headers(TRUE), NoBody)>>,
              <<result>>, DeleteCheck(variant, result),
              IF DeleteCheck(variant, result) = NoExc THEN PyNone
              ELSE NoReturn)

backup_delete ==
    \E filename \in Names, result \in DeleteResponses :
        /\ call' = DeleteOutcome(filename, result)
        /\ UNCHANGED driver_vars
        /\ UNCHANGED <<variant, domain, ssl, user_agent, username, password,
                       access_token, refresh_token, auth_token, disk,
                       exchanged>>

-----------------------------------------------------------------------------
(* backup_download *)

ChunkSeqs == UNION {[1..n -> Chunks] : n \in 0..MaxChunks}

\* answers of GET <download link>: the status and the chunks iter_content
\* yields
DownloadResponses ==
    [status_code : {200, 304}, chunks : ChunkSeqs]
        \cup [status_code : {404}, chunks : {<<>>, <<<<1>>>>}]

\* Response.raise_for_status(): 4xx and 5xx raise
raise_for_status(r) ==
    IF r.status_code \in 400..599
    THEN [type |-> "HTTPError", msg |-> <<r.status_code>>]
    ELSE NoExc

\* a mutation of WriteChunks: each write replaces what was written before
RECURSIVE WriteChunksOverwrite(_, _)
WriteChunksOverwrite(data, chunks) ==
    IF chunks = <<>> THEN data
    ELSE WriteChunksOverwrite(IF Head(chunks) # <<>> THEN Head(chunks)
                              ELSE data,
                              Tail(chunks))

\* the file after the loop over iter_content has written to it
RECURSIVE WriteChunks(_, _)
WriteChunks(data, chunks) ==
    IF chunks = <<>> THEN data
    ELSE WriteChunks(IF Head(chunks) # <<>> THEN data \o Head(chunks)
                     ELSE data,
                     Tail(chunks))

\* a mutation of DownloadOutcome: the file is opened before the status is
\* checked
DownloadOutcomeOpenFirst(download_link, output_file, r) ==
    LET req == Request("GET", build_url(download_link), <<>>, NoBody)
        e == raise_for_status(r)
    IN  IF e # NoExc
        THEN [file |-> [exists |-> TRUE, data |-> <<>>],
              call |-> Call("backup_download", <<download_link, output_file>>,
                            <<req>>, <<r>>, e, NoReturn)]
        ELSE [file |-> [exists |-> TRUE, data |-> WriteChunks(<<>>, r.chunks)],
              call |-> Call("backup_download", <<download_link, output_file>>,
                            <<req>>, <<r>>, NoExc, PyNone)]

\* backup_download(download_link, output_file) with the server answering r:
\* the file and the record of the call.  The request goes through
\* requests.get without headers, not through the session.
DownloadOutcome(download_link, output_file, r) ==
    LET req == Request("GET", build_url(download_link), default_headers,
                       NoBody)
        e == raise_for_status(r)
    IN  IF e # NoExc
        THEN [file |-> disk[output_file],
              call |-> Call("backup_download", <<download_link, output_file>>,
                            <<req>>, <<r>>, e, NoReturn)]
        ELSE [file |-> [exists |-> TRUE, data |-> WriteChunks(<<>>, r.chunks)],
              call |-> Call("backup_download", <<download_link, output_file>>,
                            <<req>>, <<r>>, NoExc, PyNone)]

backup_download ==
    \E download_link \in Links, output_file \in OutPaths,
       r \in DownloadResponses :
        LET o == DownloadOutcome(download_link, output_file, r)
        IN  /\ disk' = [disk EXCEPT ![output_file] = o.file]
            /\ call' = o.call
            /\ UNCHANGED driver_vars
            /\ UNCHANGED <<variant, domain, ssl, user_agent, username,
                           password, access_token, refresh_token, auth_token,
                           exchanged>>

-----------------------------------------------------------------------------
(* The client under any sequence of calls and any answers of the server *)

\* the calls that go through the session and its token state
Next ==
    \/ login
    \/ backup_fetch_list
    \/ backup_start
    \/ backup_delete

Spec == Init /\ [][Next]_vars

\* every call of the client, backup_download included
NextAll ==
    \/ Next
    \/ backup_download

SpecAll == Init /\ [][NextAll]_vars

\* every operation again, with the downloads whose body is empty: what is on
\* disk has no part in the token fields
NextTokens ==
    \/ Next
    \/ backup_download /\ call'.resps[1].chunks = <<>>

SpecTokens == Init /\ [][NextTokens]_vars

\* downloads alone
NextDownload ==
    \/ backup_download

SpecDownload == Init /\ [][NextDownload]_vars

-----------------------------------------------------------------------------
(* URL building: cxgui(d, s)._build_url(relative_url) *)

\* domains with and without a trailing slash
UrlDomains ==
    {<<h>> : h \in {"example.com", "pbx.local"}}
        \cup {<<h, "/">> : h \in {"example.com", "pbx.local"}}

\* the paths the client builds URLs from, and the same with and without a
\* leading slash
UrlPaths ==
    {LOGIN_PATH, TOKEN_PATH, BACKUPS_PATH, BACKUP_PATH,
     <<"/", "foo">>, <<"foo">>} \cup Links

\* a client is constructed for domain d with SSL flag s, and builds the URL
\* of relative_url
construct_and_build_url ==
    \E d \in UrlDomains, s \in BOOLEAN, relative_url \in UrlPaths :
        /\ domain' = NormalizeDomain(variant, d)
        /\ ssl' = s
        /\ username' = None
        /\ password' = None
        /\ access_token' = None
        /\ refresh_token' = None
        /\ auth_token' = None
        /\ exchanged' = FALSE
        /\ call' = Call("_build_url", <<d, s, relative_url>>, <<>>, <<>>,
                        NoExc, PyString(build_url(relative_url)'))
        /\ UNCHANGED driver_vars
        /\ UNCHANGED <<variant, user_agent, disk>>

NextUrl ==
    \/ construct_and_build_url

SpecUrl == Init /\ [][NextUrl]_vars

-----------------------------------------------------------------------------
(* The __main__ block: login, backup_start, the poll loop, backup_download, *)
(* and in cxgui.py the extraction of the two tables and backup_delete      *)

\* backup records the server can list while the driver polls for fname: the
\* backup itself under either link, and an older backup
DriverRecords(fname) ==
    {[FileName |-> fname, DownloadLink |-> l,
      CreationTime |-> "2026-01-19T03:00:00Z", Size |-> 1024] : l \in Links}
        \cup {[FileName |-> "a.zip", DownloadLink |-> <<"backups/2">>,
               CreationTime |-> "2026-01-19T03:00:00Z", Size |-> 1024]}

DriverLists(fname) ==
    UNION {[1..n -> DriverRecords(fname)] : n \in 0..MaxRecs}

\* the list names the backup fname
Lists(raw, fname) == \E i \in 1..Len(raw) : raw[i].FileName = fname

\* answers of GET /xapi/v1/Backups to the poll loop: with the backup in the
\* list once the server has it ready, without it (or a failure) before
PollResponses(fname) ==
    IF ready
    THEN {[status_code |-> 200, json |-> [value |-> raw]] :
            raw \in {l \in DriverLists(fname) : Lists(l, fname)}}
    ELSE {[status_code |-> 200, json |-> [value |-> raw]] :
            raw \in {l \in DriverLists(fname) : ~Lists(l, fname)}}
         \cup {[status_code |-> 401, json |-> ErrorBody]}

\* the server finishes the backup, or loses it again
server_backup_ready ==
    /\ ~ready
    /\ ready' = TRUE
    /\ UNCHANGED <<variant, domain, ssl, user_agent, username, password,
                   access_token, refresh_token, auth_token, disk, call,
                   exchanged, pc, output_fname, backup_obj>>

server_backup_gone ==
    /\ ready
    /\ ready' = FALSE
    /\ UNCHANGED <<variant, domain, ssl, user_agent, username, password,
                   access_token, refresh_token, auth_token, disk, call,
                   exchanged, pc, output_fname, backup_obj>>

\* where the script goes after a call: an exception nobody catches ends it
AfterCall(c, next) == IF Raised(c) THEN "failed" ELSE next

\* x.login(config['USERNAME'], config['PASSWORD'])
driver_login ==
    /\ pc = "login"
    /\ \E u \in Usernames, p \in Passwords, result \in LoginResponses :
         \E token_result \in TokenAnswers(result) :
           LET o == LoginOutcome(u, p, result, token_result)
           IN  /\ username' = u
               /\ password' = p
               /\ access_token' = o.access
               /\ refresh_token' = o.refresh
               /\ auth_token' = o.auth
               /\ call' = o.call
               /\ exchanged' = (exchanged \/ o.both)
               /\ pc' = AfterCall(o.call, "trigger")
    /\ UNCHANGED <<variant, domain, ssl, user_agent, disk, output_fname,
                   backup_obj, ready>>

\* output_fname = x.backup_start()
driver_trigger ==
    /\ pc = "trigger"
    /\ \E today \in Dates, result \in TriggerResponses :
         LET c == StartOutcome(None, today, result)
         IN  /\ call' = c
             /\ output_fname' = IF Raised(c) THEN output_fname
                                ELSE c.ret.value
             /\ pc' = AfterCall(c, "poll")
    /\ UNCHANGED <<variant, domain, ssl, user_agent, username, password,
                   access_token, refresh_token, auth_token, disk, exchanged,
                   backup_obj, ready>>

\* a mutation of PollAgain: the loop never ends
PollAgainAlways(obj) == TRUE

\* the condition of the while loop: ... == []
PollAgain(obj) == obj = PyList(<<>>)

\* while (backup_obj := x.backup_fetch_list(output_fname)) == []:
driver_poll ==
    /\ pc = "poll"
    /\ \E result \in PollResponses(output_fname) :
         LET c == ListOutcome(output_fname, result)
         IN  /\ call' = c
             /\ backup_obj' = IF Raised(c) THEN backup_obj ELSE c.ret
             /\ pc' = AfterCall(c, IF PollAgain(c.ret) THEN "sleep"
                                   ELSE "download")
    /\ UNCHANGED <<variant, domain, ssl, user_agent, username, password,
                   access_token, refresh_token, auth_token, disk, exchanged,
                   output_fname, ready>>

\* time.sleep(2)
driver_sleep ==
    /\ pc = "sleep"
    /\ pc' = "poll"
    /\ UNCHANGED <<variant, domain, ssl, user_agent, username, password,
                   access_token, refresh_token, auth_token, disk, call,
                   exchanged, output_fname, backup_obj, ready>>

\* a mutation of DownloadArgs: the link of the last record found
DownloadArgsLast(obj) ==
    <<obj.value[Len(obj.value)].DownloadLink, obj.value[1].FileName>>

\* the arguments of the download: backup_obj[0]['DownloadLink'],
\* backup_obj[0]['FileName']
DownloadArgs(obj) == <<obj.value[1].DownloadLink, obj.value[1].FileName>>

\* x.backup_download(...); the script of 3cxgui.py ends with it
driver_download ==
    /\ pc = "download"
    /\ \E r \in DownloadResponses :
         LET a == DownloadArgs(backup_obj)
             o == DownloadOutcome(a[1], a[2], r)
         IN  /\ disk' = [disk EXCEPT ![a[2]] = o.file]
             /\ call' = o.call
             /\ pc' = AfterCall(o.call, IF variant = "cxgui" THEN "unzip"
                                        ELSE "done")
    /\ UNCHANGED <<variant, domain, ssl, user_agent, username, password,
                   access_token, refresh_token, auth_token, exchanged,
                   output_fname, backup_obj, ready>>

\* what zipfile finds in the downloaded file: whether it is an archive, and
\* each of the two tables, if the archive has it
CsvTexts == {<<>>, <<1>>}

Members ==
    {[present |-> FALSE, text |-> <<>>]}
        \cup [present : {TRUE}, text : CsvTexts]

Archives == [valid : BOOLEAN, cdrbilling : Members, cdroutput : Members]

\* with zipfile.ZipFile(output_fname) as archive: ... the files written and
\* the record of the step
ExtractOutcome(archive) ==
    LET wrote1 == [disk EXCEPT !["cdrbilling.csv"] =
                      [exists |-> TRUE, data |-> archive.cdrbilling.text]]
        wrote2 == [wrote1 EXCEPT !["cdroutput.csv"] =
                      [exists |-> TRUE, data |-> archive.cdroutput.text]]
    IN  IF ~archive.valid
        THEN [disk |-> disk,
              call |-> Call("zipfile", <<output_fname>>, <<>>, <<>>,
                            [type |-> "BadZipFile",
                             msg |-> <<"File is not a zip file">>],
                            NoReturn)]
        ELSE IF ~archive.cdrbilling.present
        THEN [disk |-> disk,
              call |-> Call("zipfile", <<output_fname>>, <<>>, <<>>,
                            LookupError("KeyError", "DbTables/cdrbilling.csv"),
                            NoReturn)]
        ELSE IF ~archive.cdroutput.present
        THEN [disk |-> wrote1,
              call |-> Call("zipfile", <<output_fname>>, <<>>, <<>>,
                            LookupError("KeyError", "DbTables/cdroutput.csv"),
                            NoReturn)]
        ELSE [disk |-> wrote2,
              call |-> Call("zipfile", <<output_fname>>, <<>>, <<>>, NoExc,
                            PyNone)]

\* the extraction of cxgui.py; a file of no bytes is not an archive
driver_unzip ==
    /\ pc = "unzip"
    /\ \E archive \in Archives :
         /\ disk[output_fname].data = <<>> => ~archive.valid
         /\ LET o == ExtractOutcome(archive)
            IN  /\ disk' = o.disk
                /\ call' = o.call
                /\ pc' = AfterCall(o.call, "delete")
    /\ UNCHANGED <<variant, domain, ssl, user_agent, username, password,
                   access_token, refresh_token, auth_token, exchanged,
                   output_fname, backup_obj, ready>>

\* x.backup_delete(output_fname)
driver_delete ==
    /\ pc = "delete"
    /\ \E result \in DeleteResponses :
         LET c == DeleteOutcome(output_fname, result)
         IN  /\ call' = c
             /\ pc' = AfterCall(c, "done")
    /\ UNCHANGED <<variant, domain, ssl, user_agent, username, password,
                   access_token, refresh_token, auth_token, disk, exchanged,
                   output_fname, backup_obj, ready>>

\* the statements of the script
DriverStep ==
    \/ driver_login
    \/ driver_trigger
    \/ driver_poll
    \/ driver_sleep
    \/ driver_download
    \/ driver_unzip
    \/ driver_delete

NextDriver ==
    \/ DriverStep
    \/ server_backup_ready
    \/ server_backup_gone

SpecDriver == Init /\ [][NextDriver]_vars

\* the interpreter runs the next statement of the script for as long as there
\* is one: each call returns or raises, and time.sleep returns
SpecDriverFair == SpecDriver /\ WF_vars(DriverStep)

-----------------------------------------------------------------------------
(* The claims *)

AuthenticatedOps == {"backup_fetch_list", "backup_start", "backup_delete"}

\* the three conditions of a successful primary login response
PrimaryAccepted(r) ==
    /\ r.status_code = 200
    /\ "Status" \in DOMAIN r.json
    /\ r.json.Status = "AuthSuccess"
    /\ r.json.Token.token_type = "Bearer"

\* C1: auth_token is set only if some login had both its primary call
\* accepted and its /connect/token call answered with HTTP 200.
C1_AuthTokenOnlyAfterBothCallsSucceed ==
    auth_token # None => exchanged

\* C2: when the primary response fails one of the three conditions (HTTP
\* 200, Status "AuthSuccess", token type "Bearer"), login raises, keeps the
\* stored access and refresh tokens, and sends no token-exchange request.
C2_PrimaryRejectedStopsLogin ==
    [][(call'.op = "login" /\ ~PrimaryAccepted(call'.resps[1]))
        => /\ Raised(call')
           /\ Len(call'.reqs) = 1
           /\ call'.reqs[1].url = build_url(LOGIN_PATH)
           /\ access_token' = access_token
           /\ refresh_token' = refresh_token]_vars

\* C2 witness: HTTP 200 with a non-success body status was rejected.
C2_Witness ==
    /\ call.op = "login"
    /\ call.resps[1].status_code = 200
    /\ "Status" \in DOMAIN call.resps[1].json
    /\ call.resps[1].json.Status = "AuthFailed"
    /\ Raised(call)
    /\ Len(call.reqs) = 1
    /\ access_token = None

\* C3 as stated: after a login that returned, auth_token is non-empty, is the
\* token-exchange response's access_token and differs from access_token.
C3_AuthTokenNonEmptyAndDistinct ==
    (call.op = "login" /\ ~Raised(call))
        => /\ auth_token # ""
           /\ auth_token = call.resps[2].json.access_token
           /\ auth_token # access_token

\* C3 amended: after a login that returned, auth_token is the token-exchange
\* response's access_token and access_token is the primary response's; so
\* auth_token is non-empty and differs from access_token exactly when the
\* server's second access_token is non-empty and differs from its first.
C3_AuthTokenIsExchangedToken ==
    (call.op = "login" /\ ~Raised(call))
        => /\ Len(call.resps) = 2
           /\ auth_token = call.resps[2].json.access_token
           /\ access_token = call.resps[1].json.Token.access_token
           /\ refresh_token = call.resps[1].json.Token.refresh_token

\* C3 witness: a login returned with two different tokens from the server.
C3_Witness ==
    /\ call.op = "login"
    /\ ~Raised(call)
    /\ call.resps[1].json.Token.access_token = "tA"
    /\ call.resps[2].json.access_token = "tC"
    /\ auth_token = "tC"
    /\ access_token = "tA"

\* C4: a login whose primary response is not HTTP 200 (e.g. 401) raises the
\* HTTP-status error and leaves auth_token as it was before the call, so on
\* a client whose auth_token is unset it is still null after the call.
C4_FailedLoginLeavesAuthTokenUnset ==
    [][(call'.op = "login" /\ call'.resps[1].status_code # 200)
        => /\ Raised(call')
           /\ call'.raised.type \in {"HttpError", "RuntimeError"}
           /\ call'.raised.msg[2] = call'.resps[1].status_code
           /\ auth_token' = auth_token
           /\ auth_token = None => auth_token' = None]_vars

\* C4 witness: a 401 on a client that never logged in; auth_token is null.
C4_Witness ==
    /\ call.op = "login"
    /\ call.resps[1].status_code = 401
    /\ Raised(call)
    /\ ~exchanged
    /\ auth_token = None

\* C5: list, trigger and delete on a client whose auth_token is not set
\* raise, and send no request with an Authorization header.
C5_UnauthenticatedCallFails ==
    (call.op \in AuthenticatedOps /\ auth_token = None)
        => /\ Raised(call)
           /\ \A i \in 1..Len(call.reqs) :
                "Authorization" \notin DOMAIN call.reqs[i].headers

\* the duplicate marker is the first error detail of the body
HasDuplicateMarker(r) ==
    /\ "error" \in DOMAIN r.json
    /\ r.json.error.details # <<>>
    /\ r.json.error.details[1].message = "WARNINGS.XAPI.DUPLICATE"

\* C6: when trigger(name) has returned and the next trigger(name), with the
\* same name, is answered HTTP 400 with the duplicate marker as first error
\* detail, the second call returns too, and returns the same file name.
C6_TriggerIdempotentOnDuplicate ==
    [][(/\ call.op = "backup_start"
        /\ ~Raised(call)
        /\ call'.op = "backup_start"
        /\ call'.args = call.args
        /\ call.args[1] # None
        /\ call'.resps[1].status_code = 400
        /\ HasDuplicateMarker(call'.resps[1]))
        => /\ ~Raised(call')
           /\ call'.ret = call.ret]_vars

\* C6 witness: trigger("a.zip") answered 400 with the duplicate marker
\* returned "a.zip".
C6_Witness ==
    /\ call.op = "backup_start"
    /\ call.args = <<"a.zip">>
    /\ call.resps[1].status_code = 400
    /\ HasDuplicateMarker(call.resps[1])
    /\ ~Raised(call)
    /\ call.ret = PyString("a.zip")

\* C7: trigger returns the file name exactly when the answer is 200, 204 or
\* 400 with the duplicate marker; on every other answer it raises the
\* HTTP-status error carrying the status and the body, and returns nothing.
C7_TriggerOutcomeByStatus ==
    call.op = "backup_start"
        => LET r == call.resps[1]
           IN  IF \/ r.status_code \in {200, 204}
                  \/ r.status_code = 400 /\ HasDuplicateMarker(r)
               THEN /\ ~Raised(call)
                    /\ call.ret.type = "str"
                    /\ call.ret.value = call.reqs[1].body.description.Name
               ELSE /\ Raised(call)
                    /\ call.raised.type \in {"HttpError", "RuntimeError"}
                    /\ call.raised.msg[2] = r.status_code
                    /\ call.raised.msg[4] = r.json
                    /\ call.ret = NoReturn

\* the indexes of the records of raw whose FileName is f
Matching(raw, f) == {i \in 1..Len(raw) : raw[i].FileName = f}

\* the k-th index, in increasing order, of a set of indexes
KthOf(idx, k) == CHOOSE i \in idx : Cardinality({j \in idx : j < i}) = k - 1

\* C8: on HTTP 200, list(filter) returns the fetched records whose FileName
\* is the filter, each once and in the server's order; list() returns the
\* fetched records unchanged.
C8_ListReturnsTheMatchingRecords ==
    (/\ call.op = "backup_fetch_list"
     /\ call.resps[1].status_code = 200
     /\ "value" \in DOMAIN call.resps[1].json)
        => LET raw == call.resps[1].json.value
               f == call.args[1]
               out == call.ret
           IN  /\ ~Raised(call)
               /\ out.type = "list"
               /\ IF f = None
                  THEN out.value = raw
                  ELSE /\ Len(out.value) = Cardinality(Matching(raw, f))
                       /\ \A k \in 1..Len(out.value) :
                            out.value[k] = raw[KthOf(Matching(raw, f), k)]

\* C8 witness: of two fetched records one has the filter's name, and the
\* call returned that one alone.
C8_Witness ==
    /\ call.op = "backup_fetch_list"
    /\ call.args[1] # None
    /\ call.resps[1].status_code = 200
    /\ "value" \in DOMAIN call.resps[1].json
    /\ Len(call.resps[1].json.value) = 2
    /\ Matching(call.resps[1].json.value, call.args[1]) = {2}
    /\ call.ret.type = "list"
    /\ Len(call.ret.value) = 1
    /\ call.ret.value[1].FileName = call.args[1]

\* C9: on HTTP 200, list(filter) with a filter no fetched record matches
\* returns the empty list, not None, and does not raise.
C9_NoMatchReturnsEmptyList ==
    (/\ call.op = "backup_fetch_list"
     /\ call.args[1] # None
     /\ call.resps[1].status_code = 200
     /\ "value" \in DOMAIN call.resps[1].json
     /\ Matching(call.resps[1].json.value, call.args[1]) = {})
        => /\ ~Raised(call)
           /\ call.ret.type = "list"
           /\ call.ret.value = <<>>

\* C9 witness: the server reported records, none with the filter's name, and
\* the call returned the empty list.
C9_Witness ==
    /\ call.op = "backup_fetch_list"
    /\ call.args[1] # None
    /\ call.resps[1].status_code = 200
    /\ "value" \in DOMAIN call.resps[1].json
    /\ Len(call.resps[1].json.value) > 0
    /\ Matching(call.resps[1].json.value, call.args[1]) = {}
    /\ call.ret = PyList(<<>>)

\* C10: delete(filename) sends one DELETE request for the named backup,
\* returns only when the answer is 204 and raises on every other status.
C10_DeleteReturnsOnlyOn204 ==
    call.op = "backup_delete"
        => /\ Len(call.reqs) = 1
           /\ call.reqs[1].method = "DELETE"
           /\ call.reqs[1].url =
                build_url(<<"/", "xapi/v1/Backups('", call.args[1], "')">>)
           /\ Raised(call) <=> call.resps[1].status_code # 204

\* C11: download raises on every answer whose status is not 2xx (1xx, 3xx,
\* 4xx and 5xx alike) and returns only on a 2xx answer.
C11_DownloadRaisesUnless2xx ==
    call.op = "backup_download"
        => (Raised(call) <=> call.resps[1].status_code \notin 200..299)

\* the bytes of a sequence of chunks, one after the other
RECURSIVE Concat(_)
Concat(chunks) ==
    IF chunks = <<>> THEN <<>>
    ELSE Concat(SubSeq(chunks, 1, Len(chunks) - 1)) \o chunks[Len(chunks)]

\* C12: after a download that returned, the output file holds the bytes of
\* the non-empty chunks of the answer, in the order they were delivered, and
\* nothing else.
C12_FileIsConcatenationOfChunks ==
    (call.op = "backup_download" /\ ~Raised(call))
        => LET chunks == call.resps[1].chunks
               kept == SelectSeq(chunks, LAMBDA c : Len(c) > 0)
               file == disk[call.args[2]]
           IN  /\ file.exists
               /\ file.data = Concat(kept)

\* C12 witness: a zero-length chunk followed by a non-empty one left exactly
\* the non-empty chunk's bytes in the file.
C12_Witness ==
    /\ call.op = "backup_download"
    /\ ~Raised(call)
    /\ call.resps[1].chunks = <<<<>>, <<2>>>>
    /\ disk[call.args[2]] = [exists |-> TRUE, data |-> <<2>>]

\* C20: a download that fails the status check leaves the output file as it
\* was: it is neither created, truncated nor written.
C20_FailedDownloadLeavesFileUntouched ==
    [][(call'.op = "backup_download" /\ Raised(call'))
        => disk' = disk]_vars

\* C20 witness: a download failed on its status after an earlier download
\* had written the file, and the earlier bytes are still there.
C20_Witness ==
    /\ call.op = "backup_download"
    /\ Raised(call)
    /\ call.resps[1].status_code = 404
    /\ disk[call.args[2]] = [exists |-> TRUE, data |-> <<1, 2>>]

\* a string without its trailing slash, and without its leading slash
WithoutTrailingSlash(d) ==
    IF d[Len(d)] = "/" THEN SubSeq(d, 1, Len(d) - 1) ELSE d

WithoutLeadingSlash(p) == IF p[1] = "/" THEN Tail(p) ELSE p

\* C13: for a domain with or without a trailing slash and a path with or
\* without a leading slash, the URL is the scheme (https with the SSL flag,
\* http without), "://", the domain without its trailing slash, one slash
\* and the path without its leading slash: no two slashes meet.
C13_UrlHasExactlyOneSlash ==
    call.op = "_build_url"
        => LET d == call.args[1]
               s == call.args[2]
               p == call.args[3]
               url == call.ret.value
           IN  /\ url = <<IF s THEN "https" ELSE "http", "://">>
                          \o WithoutTrailingSlash(d) \o <<"/">>
                          \o WithoutLeadingSlash(p)
               /\ \A i \in 1..(Len(url) - 1) :
                    ~(url[i] = "/" /\ url[i + 1] = "/")

\* C13 witness: domain "example.com/" with path "/foo" gives
\* https://example.com/foo.
C13_Witness ==
    /\ call.op = "_build_url"
    /\ call.args = <<<<"example.com", "/">>, TRUE, <<"/", "foo">>>>
    /\ call.ret.value = <<"https", "://", "example.com", "/", "foo">>

\* C14: every request of every operation, download included, carries
\* Accept: application/json and the client's User-Agent; the requests of
\* list, trigger and delete carry Authorization: Bearer <auth_token> as well,
\* and the requests of login carry no Authorization.
C14_EveryRequestCarriesTheHeaders ==
    \A i \in 1..Len(call.reqs) :
        LET h == call.reqs[i].headers
        IN  /\ "Accept" \in DOMAIN h
            /\ h["Accept"] = "application/json"
            /\ "User-Agent" \in DOMAIN h
            /\ h["User-Agent"] = user_agent
            /\ call.op \in AuthenticatedOps
                => /\ "Authorization" \in DOMAIN h
                   /\ h["Authorization"] = "Bearer " \o PyStr(auth_token)
            /\ call.op = "login" => "Authorization" \notin DOMAIN h

\* C15: no operation retries: a call of list, trigger, delete or download
\* issues exactly one request and a call of login at most two, and a login
\* whose primary call is rejected raises after that one request.
C15_NoInternalRetries ==
    /\ call.op \in AuthenticatedOps \cup {"backup_download"}
        => Len(call.reqs) = 1
    /\ call.op = "login"
        => /\ Len(call.reqs) \in 1..2
           /\ ~PrimaryAccepted(call.resps[1])
                => (Len(call.reqs) = 1 /\ Raised(call))

\* C19: list, trigger, download and delete leave access_token, refresh_token
\* and auth_token as they were, and so does a login rejected at its primary
\* call; a login that raises leaves auth_token as it was, and the
\* authenticated requests carry the auth_token the client holds.
C19_TokensChangeOnlyInLogin ==
    [][/\ (call'.op # "login" \/ ~PrimaryAccepted(call'.resps[1]))
            => UNCHANGED <<access_token, refresh_token, auth_token>>
       /\ (call'.op = "login" /\ Raised(call'))
            => auth_token' = auth_token
       /\ call'.op \in AuthenticatedOps
            => \A i \in 1..Len(call'.reqs) :
                 call'.reqs[i].headers["Authorization"]
                    = "Bearer " \o PyStr(auth_token)]_vars

\* C19 witness: a login rejected at its primary call, after an earlier login
\* had set the three fields, which are still set.
C19_Witness ==
    /\ call.op = "login"
    /\ Raised(call)
    /\ ~PrimaryAccepted(call.resps[1])
    /\ access_token # None
    /\ refresh_token # None
    /\ auth_token \notin {None, ""}

\* the calls of the script, each with the call it may follow
DriverOrder ==
    {<<"init", "login">>, <<"login", "backup_start">>,
     <<"backup_start", "backup_fetch_list">>,
     <<"backup_fetch_list", "backup_fetch_list">>,
     <<"backup_fetch_list", "backup_download">>,
     <<"backup_download", "zipfile">>, <<"zipfile", "backup_delete">>}

\* C16: the driver calls login, trigger, list (repeatedly), download and
\* delete in this order; it downloads only after a list call for the
\* triggered name returned a non-empty result, with the DownloadLink of that
\* result's first record; it lists again only after an empty result; it
\* deletes only when nothing has raised and the download has written the
\* file; and after a step that raised it takes no step at all.
C16_DriverOrder ==
    [][/\ (pc' # pc /\ pc # "sleep")
            => /\ <<call.op, call'.op>> \in DriverOrder
               /\ call'.op = "backup_download"
                    => /\ call.op = "backup_fetch_list"
                       /\ ~Raised(call)
                       /\ call.args = <<output_fname>>
                       /\ call.ret.value # <<>>
                       /\ call'.args[1] = call.ret.value[1].DownloadLink
                       /\ call'.reqs[1].url
                            = build_url(call.ret.value[1].DownloadLink)
               /\ (call'.op = "backup_fetch_list"
                        /\ call.op = "backup_fetch_list")
                    => call.ret = PyList(<<>>)
               /\ call'.op = "backup_delete"
                    => /\ call'.args = <<output_fname>>
                       /\ disk[output_fname].exists
       /\ Raised(call) => (call' = call /\ pc' = pc)]_vars

\* C16 witness: the script of cxgui.py ran to its end: the backup was
\* downloaded and then deleted.
C16_Witness ==
    /\ pc = "done"
    /\ call.op = "backup_delete"
    /\ ~Raised(call)
    /\ disk[output_fname].exists

\* C17: the driver terminates: it makes finitely many list calls and then
\* ends, whatever the server answers.
C17_DriverTerminates == <>(pc \in {"done", "failed"})

\* the driver is in its poll loop: login and trigger have returned
Polling == pc \in {"poll", "sleep"}

\* a list call of the driver raised
PollFailed == call.op = "backup_fetch_list" /\ Raised(call)

\* the driver has issued the download of a record found under the triggered
\* name, into the file of that name
DownloadIssued ==
    /\ call.op = "backup_download"
    /\ call.args[2] = output_fname
    /\ \E i \in 1..Len(backup_obj.value) :
         /\ backup_obj.value[i].FileName = output_fname
         /\ backup_obj.value[i].DownloadLink = call.args[1]
         /\ call.reqs[1].url = build_url(backup_obj.value[i].DownloadLink)

====
